---- MODULE Spec2Model ----
(***************************************************************************)
(* The plan-execution engine of seqthink-kit's runtime package: the tool   *)
(* registry, the in-memory trace, runPlan with retryWithBackoff, and       *)
(* replayPlan.  One run of runPlan is followed from the call to its        *)
(* settlement; the bridge and the tool handlers are the environment, which *)
(* settles an in-flight call with a value, rejects it, or leaves it        *)
(* pending.                                                                *)
(***************************************************************************)
EXTENDS Integers, Sequences, FiniteSets, TLC

\* ------------------------------------------------------------------ bounds
MaxSteps == 2          \* longest plan
MaxRetries == 1        \* largest opts.retries
MaxReplay == 2         \* replayPlan calls made after the run settled
MaxEvents == 3         \* events added to a recorder used on its own
MaxPersist == 2        \* persist calls made on that recorder
MaxBackoffRetries == 3 \* largest opts.retries where the backoff waits are checked

\* --------------------------------------------------------------- data model
StepIdAt == <<"s1", "s2", "s3", "s4">>      \* step ids, unique within a plan
StepIds == {StepIdAt[k] : k \in 1..MaxSteps}
NoAssign == ""                               \* a ToolStep without assign
\* an alias may be a fresh key or coincide with the id of another step
Aliases == {"answer", StepIdAt[1], StepIdAt[2]}
Keys == StepIds \cup Aliases                 \* keys of vars
ToolNames == {"add_one", "not_there"}
Values == {41, 42}                           \* what a bridge or a handler returns
\* registration 1 is installed before the run; 2 is the one later callers bring
Registrations == {2}
Unbound == 0                                 \* key not in vars
Absent == 0                                  \* registry.get(name) === undefined

ThinkStep(id) == [id |-> id, kind |-> "think", toolName |-> "", assign |-> NoAssign]
ToolStep(id, name, as) == [id |-> id, kind |-> "tool", toolName |-> name, assign |-> as]

\* the steps a plan may hold at position k; the step naming the tool that is
\* not registered at the start declares no alias
StepsAt(k) ==
    {ThinkStep(StepIdAt[k]), ToolStep(StepIdAt[k], "not_there", NoAssign)} \cup
    {ToolStep(StepIdAt[k], "add_one", a) : a \in Aliases \cup {NoAssign}}

Plans ==
    UNION {{p \in [1..n -> UNION {StepsAt(k) : k \in 1..MaxSteps}] :
               \A k \in 1..n : p[k] \in StepsAt(k)} : n \in 0..MaxSteps}

\* TraceEvent: ts is left out (Date.now() orders nothing the runner reads)
\* stack is TRUE iff the event has a stack field holding the error's stack
Event(type, stepId, output, message) ==
    [type |-> type, stepId |-> stepId, output |-> output, message |-> message,
     stack |-> FALSE]
PlanStartEvent == Event("plan:start", "", Unbound, "")
PlanEndEvent == Event("plan:end", "", Unbound, "ok")
StartEvent(step) == Event(IF step.kind = "think" THEN "think:start" ELSE "tool:start",
                          step.id, Unbound, "")
EndEvent(step, output) == Event(IF step.kind = "think" THEN "think:end" ELSE "tool:end",
                                step.id, output, "")
\* the onError callbacks: message and stack of the caught error
ErrorEvent(stepId, message) ==
    [Event("error", stepId, Unbound, message) EXCEPT !.stack = TRUE]
\* the lookup failure's event, built before the Error object exists
LookupErrorEvent(stepId, message) == Event("error", stepId, Unbound, message)

\* mutant: the event is put at the front of the log
addFront(events, e) == <<e>> \o events

\* InMemoryTrace.add: this.events.push(e); runPlan's trace has no redactor
add(events, e) == Append(events, e)

\* InMemoryTrace.toJSON: { events: this.events, version: 1 }
toJSON(events) == [version |-> 1, events |-> events]
\* no file at the path yet
NoFile == [version |-> 0, events |-> <<>>]

\* a second runPlan call that has not been made yet
NoOther == [pc |-> "idle", trace |-> <<>>, vars |-> [k \in Keys |-> Unbound]]

NoBridgeMessage == "No bridge provided for think step"
NotRegisteredMessage == "Tool not registered"
OperationMessage == "operation rejected"
UsageMessage == "onTokenUsage threw"

VARIABLES
    plan,          \* the ThoughtPlan handed to runPlan
    retries,       \* opts.retries
    bridge,        \* TRUE iff opts.bridge is supplied
    onTokenUsage,  \* TRUE iff opts.onTokenUsage is supplied
    registry,      \* the module-level Map: tool name -> registration (0 = none)
    trace,         \* InMemoryTrace.events of the run
    vars,          \* the run's bindings: key -> value (0 = not bound)
    pc,            \* where runPlan is
    cur,           \* index of the step the for-loop is at
    attempt,       \* retryWithBackoff's attempt counter
    registration,  \* the registration the current tool step captured
    timer,         \* the current attempt's setTimeout: "none", "pending", "fired"
    thrown,        \* the message runPlan rejected with ("" while not rejected)
    replayed,      \* number of replayPlan calls made
    replayOut,     \* what the last replayPlan call returned
    opCalls,       \* per step: bridge.complete / handler invocations made
    failures,      \* per step: attempts of the step that threw
    lastOutput,    \* value returned by the last successful operation
    delays,        \* per step: the backoff waits made, in seconds
    traceRefs,     \* who has been handed the run's Trace object
    inFlight,      \* bridge / handler calls made and not yet settled
    lastRegistered,\* per name: the registration of the latest registerTool call
    file,          \* the document in the file at the path given to persist
    persists,      \* the persist calls made: where each is, and the text it built
    other          \* a second, concurrent runPlan call: its pc, trace and vars

state == <<plan, retries, bridge, onTokenUsage, registry, trace, vars,
           pc, cur, attempt, registration, timer, thrown, replayed, replayOut,
           opCalls, failures, lastOutput, delays, traceRefs, inFlight,
           lastRegistered, file, persists, other>>

NoReplay == [ok |-> FALSE, vars |-> [k \in Keys |-> Unbound], missing |-> "none"]

\* the options besides retries, and the state before runPlan is called
Constructed ==
    /\ bridge \in BOOLEAN
    /\ onTokenUsage \in BOOLEAN
    \* options no step of the plan reads are left at one value
    /\ (\A k \in 1..Len(plan) : plan[k].kind = "tool") => (bridge /\ ~onTokenUsage)
    /\ ~bridge => ~onTokenUsage
    /\ registry = [n \in ToolNames |-> IF n = "add_one" THEN 1 ELSE Absent]
    /\ lastRegistered = registry
    /\ trace = <<>>
    /\ other = NoOther
    /\ file = NoFile
    /\ persists = <<>>
    /\ inFlight = 0
    /\ traceRefs = {}
    /\ vars = [k \in Keys |-> Unbound]
    /\ pc = "idle"
    /\ cur = 1
    /\ attempt = 0
    /\ registration = Absent
    /\ timer = "none"
    /\ thrown = ""
    /\ replayed = 0
    /\ replayOut = NoReplay
    /\ opCalls = [k \in 1..MaxSteps |-> 0]
    /\ failures = [k \in 1..MaxSteps |-> 0]
    /\ lastOutput = Unbound
    /\ delays = [k \in 1..MaxSteps |-> <<>>]

Init ==
    /\ plan \in Plans
    /\ retries \in 0..MaxRetries
    /\ Constructed

\* ------------------------------------------------------------ tool registry
\* mutant: a name already registered keeps its first registration
registerToolKeepsFirst(name, reg) ==
    /\ pc \in {"idle", "inflight", "backoff"}
    /\ registry' = IF registry[name] = Absent THEN [registry EXCEPT ![name] = reg]
                                               ELSE registry
    /\ lastRegistered' = [lastRegistered EXCEPT ![name] = reg]
    /\ UNCHANGED <<plan, other, persists, file, inFlight, traceRefs, retries, bridge,
                   onTokenUsage, trace, vars, pc, cur, attempt, registration, timer,
                   thrown, replayed, replayOut, opCalls, failures, lastOutput, delays>>

\* registerTool: registry.set(reg.name, reg).  Another caller gets to run
\* before the run starts and where the run is suspended: while an operation is
\* pending and during a backoff wait.
registerTool(name, reg) ==
    /\ pc \in {"idle", "inflight", "backoff"}
    /\ registry' = [registry EXCEPT ![name] = reg]
    /\ lastRegistered' = [lastRegistered EXCEPT ![name] = reg]
    /\ UNCHANGED <<plan, other, persists, file, inFlight, traceRefs, retries, bridge,
                   onTokenUsage, trace, vars, pc, cur, attempt, registration, timer,
                   thrown, replayed, replayOut, opCalls, failures, lastOutput, delays>>

\* ------------------------------------------------------------------ runPlan
Settled == pc \in {"resolved", "rejected"}
step == plan[cur]

\* runPlan is called: a fresh trace and empty vars, plan:start appended
runPlan ==
    /\ pc = "idle"
    /\ trace' = add(trace, PlanStartEvent)
    /\ traceRefs' = {"runPlan"}
    /\ pc' = "loop"
    /\ UNCHANGED <<plan, other, persists, file, lastRegistered, inFlight, retries, bridge,
                   onTokenUsage, registry, vars, cur, attempt, registration, timer,
                   thrown, replayed, replayOut, opCalls, failures, lastOutput, delays>>

\* mutant: a think step begins without recording think:start
thinkStartUnrecorded ==
    /\ pc = "loop"
    /\ cur <= Len(plan)
    /\ step.kind = "think"
    /\ attempt' = 0
    /\ pc' = "runOnce"
    /\ UNCHANGED <<plan, other, persists, file, lastRegistered, inFlight, traceRefs,
                   retries, bridge, onTokenUsage, registry, vars, cur, registration,
                   timer, thrown, replayed, replayOut, opCalls, failures, lastOutput,
                   delays, trace>>

\* a think step begins: think:start, then retryWithBackoff(runOnce, retries, ...)
thinkStart ==
    /\ pc = "loop"
    /\ cur <= Len(plan)
    /\ step.kind = "think"
    /\ trace' = add(trace, StartEvent(step))
    /\ attempt' = 0
    /\ pc' = "runOnce"
    /\ UNCHANGED <<plan, other, persists, file, lastRegistered, inFlight, traceRefs,
                   retries, bridge, onTokenUsage, registry, vars, cur, registration,
                   timer, thrown, replayed, replayOut, opCalls, failures, lastOutput,
                   delays>>

\* a tool step whose toolName the registry holds: tool:start, then retryWithBackoff
toolStart ==
    /\ pc = "loop"
    /\ cur <= Len(plan)
    /\ step.kind = "tool"
    /\ registry[step.toolName] # Absent
    /\ registration' = registry[step.toolName]
    /\ trace' = add(trace, StartEvent(step))
    /\ attempt' = 0
    /\ pc' = "runOnce"
    /\ UNCHANGED <<plan, other, persists, file, lastRegistered, inFlight, traceRefs,
                   retries, bridge, onTokenUsage, registry, vars, cur, timer, thrown,
                   replayed, replayOut, opCalls, failures, lastOutput, delays>>

\* mutant: the lookup failure is recorded but not thrown, the step goes on
toolNotRegisteredContinues ==
    /\ pc = "loop"
    /\ cur <= Len(plan)
    /\ plan[cur].kind = "tool"
    /\ registry[plan[cur].toolName] = Absent
    /\ registration' = Absent
    /\ trace' = add(trace, LookupErrorEvent(plan[cur].id, NotRegisteredMessage))
    /\ failures' = [failures EXCEPT ![cur] = @ + 1]
    /\ attempt' = 0
    /\ pc' = "runOnce"
    /\ UNCHANGED <<plan, other, persists, file, lastRegistered, inFlight, traceRefs,
                   retries, bridge, onTokenUsage, registry, vars, cur, thrown, timer,
                   replayed, replayOut, opCalls, lastOutput, delays>>

\* mutant: the lookup is made inside the retry wrapper
toolNotRegisteredRetried ==
    /\ pc \in {"loop", "runOnce"}
    /\ cur <= Len(plan)
    /\ plan[cur].kind = "tool"
    /\ registry[plan[cur].toolName] = Absent \/ (pc = "runOnce" /\ registration = Absent)
    /\ registration' = Absent
    /\ trace' = add(trace, LookupErrorEvent(plan[cur].id, NotRegisteredMessage))
    /\ failures' = [failures EXCEPT ![cur] = @ + 1]
    /\ LET a == IF pc = "loop" THEN 0 ELSE attempt
       IN  /\ attempt' = a
           /\ IF a >= retries
                 THEN pc' = "rejected" /\ thrown' = NotRegisteredMessage /\ delays' = delays
                 ELSE /\ pc' = "backoff"
                      /\ thrown' = thrown
                      /\ delays' = [delays EXCEPT ![cur] = Append(@, 2 ^ a)]
    /\ UNCHANGED <<plan, other, persists, file, lastRegistered, inFlight, traceRefs,
                   retries, bridge, onTokenUsage, registry, vars, cur, timer,
                   replayed, replayOut, opCalls, lastOutput>>

\* a tool step whose toolName the registry does not hold: error event and throw,
\* outside retryWithBackoff
toolNotRegistered ==
    /\ pc = "loop"
    /\ cur <= Len(plan)
    /\ step.kind = "tool"
    /\ registry[step.toolName] = Absent
    /\ registration' = Absent
    /\ trace' = add(trace, LookupErrorEvent(step.id, NotRegisteredMessage))
    /\ failures' = [failures EXCEPT ![cur] = @ + 1]
    /\ thrown' = NotRegisteredMessage
    /\ pc' = "rejected"
    /\ UNCHANGED <<plan, other, persists, file, lastRegistered, inFlight, traceRefs,
                   retries, bridge, onTokenUsage, registry, vars, cur, attempt,
                   timer, replayed, replayOut, opCalls, lastOutput, delays>>

\* the for-loop is over: plan:end {ok: true} and the call resolves
planEnd ==
    /\ pc = "loop"
    /\ cur > Len(plan)
    /\ trace' = add(trace, PlanEndEvent)
    /\ traceRefs' = traceRefs \cup {"caller"}
    /\ pc' = "resolved"
    /\ UNCHANGED <<plan, other, persists, file, lastRegistered, inFlight, retries, bridge,
                   onTokenUsage, registry, vars, cur, attempt, registration, timer,
                   thrown, replayed, replayOut, opCalls, failures, lastOutput, delays>>

\* --------------------------------------------------------- retryWithBackoff
\* mutant: the boundary test is attempt > retries, one attempt too many
catchOffByOne(message) ==
    /\ trace' = add(trace, ErrorEvent(plan[cur].id, message))
    /\ timer' = "none"
    /\ IF attempt > retries
          THEN pc' = "rejected" /\ thrown' = message /\ delays' = delays
          ELSE /\ pc' = "backoff"
               /\ thrown' = thrown
               /\ delays' = [delays EXCEPT ![cur] = Append(@, 2 ^ attempt)]
    /\ UNCHANGED <<plan, other, persists, file, lastRegistered, traceRefs, retries, bridge,
                   onTokenUsage, registry, cur, attempt, registration, replayed,
                   replayOut, opCalls, lastOutput>>

\* mutant: a failed run is closed with plan:end too
catchPlanEnd(message) ==
    /\ timer' = "none"
    /\ IF attempt >= retries
          THEN /\ trace' = add(add(trace, ErrorEvent(plan[cur].id, message)),
                                  PlanEndEvent)
               /\ pc' = "rejected"
               /\ thrown' = message
               /\ delays' = delays
          ELSE /\ trace' = add(trace, ErrorEvent(plan[cur].id, message))
               /\ pc' = "backoff"
               /\ thrown' = thrown
               /\ delays' = [delays EXCEPT ![cur] = Append(@, 2 ^ attempt)]
    /\ UNCHANGED <<plan, other, persists, file, lastRegistered, traceRefs, retries, bridge,
                   onTokenUsage, registry, cur, attempt, registration, replayed,
                   replayOut, opCalls, lastOutput>>

\* mutant: onError is called only for the error that is rethrown
catchFinalOnly(message) ==
    /\ timer' = "none"
    /\ IF attempt >= retries
          THEN /\ trace' = add(trace, ErrorEvent(plan[cur].id, message))
               /\ pc' = "rejected"
               /\ thrown' = message
               /\ delays' = delays
          ELSE /\ trace' = trace
               /\ pc' = "backoff"
               /\ thrown' = thrown
               /\ delays' = [delays EXCEPT ![cur] = Append(@, 2 ^ attempt)]
    /\ UNCHANGED <<plan, other, persists, file, lastRegistered, traceRefs, retries, bridge,
                   onTokenUsage, registry, cur, attempt, registration, replayed,
                   replayOut, opCalls, lastOutput>>

\* mutant: a step that is out of retries is skipped and the loop goes on
catchSkips(message) ==
    /\ trace' = add(trace, ErrorEvent(plan[cur].id, message))
    /\ timer' = "none"
    /\ IF attempt >= retries
          THEN pc' = "loop" /\ cur' = cur + 1 /\ delays' = delays
          ELSE /\ pc' = "backoff"
               /\ cur' = cur
               /\ delays' = [delays EXCEPT ![cur] = Append(@, 2 ^ attempt)]
    /\ UNCHANGED <<plan, other, persists, file, lastRegistered, traceRefs, retries, bridge,
                   onTokenUsage, registry, thrown, attempt, registration, replayed,
                   replayOut, opCalls, lastOutput>>

\* mutant: every wait is one second
catchFixedDelay(message) ==
    /\ trace' = add(trace, ErrorEvent(step.id, message))
    /\ timer' = "none"
    /\ IF attempt >= retries
          THEN pc' = "rejected" /\ thrown' = message /\ delays' = delays
          ELSE /\ pc' = "backoff"
               /\ thrown' = thrown
               /\ delays' = [delays EXCEPT ![cur] = Append(@, 1)]
    /\ UNCHANGED <<plan, other, persists, file, lastRegistered, traceRefs, retries, bridge,
                   onTokenUsage, registry, cur, attempt, registration, replayed,
                   replayOut, opCalls, lastOutput>>

\* mutant: runOnce has no finally, the failed attempt's timer stays armed
catchLeavesTimer(message) ==
    /\ trace' = add(trace, ErrorEvent(step.id, message))
    /\ IF attempt >= retries
          THEN pc' = "rejected" /\ thrown' = message /\ delays' = delays
          ELSE /\ pc' = "backoff"
               /\ thrown' = thrown
               /\ delays' = [delays EXCEPT ![cur] = Append(@, 2 ^ attempt)]
    /\ UNCHANGED <<plan, other, persists, file, lastRegistered, traceRefs, retries, bridge,
                   onTokenUsage, registry, cur, attempt, registration, replayed,
                   replayOut, opCalls, lastOutput, timer>>

\* the catch block: onError(err), then rethrow or wait 2^attempt seconds;
\* runOnce's finally has cleared the attempt's timer before the catch runs
catch(message) ==
    /\ trace' = add(trace, ErrorEvent(step.id, message))
    /\ timer' = "none"
    /\ IF attempt >= retries
          THEN pc' = "rejected" /\ thrown' = message /\ delays' = delays
          ELSE /\ pc' = "backoff"
               /\ thrown' = thrown
               /\ delays' = [delays EXCEPT ![cur] = Append(@, 2 ^ attempt)]
    /\ UNCHANGED <<plan, other, persists, file, lastRegistered, traceRefs, retries, bridge,
                   onTokenUsage, registry, cur, attempt, registration, replayed,
                   replayOut, opCalls, lastOutput>>

\* mutant: the attempt counter is not advanced after the wait
backoffNoCount ==
    /\ pc = "backoff"
    /\ pc' = "runOnce"
    /\ UNCHANGED <<plan, other, persists, file, lastRegistered, inFlight, traceRefs,
                   retries, bridge, onTokenUsage, registry, trace, vars, cur,
                   registration, timer, thrown, replayed, replayOut, opCalls,
                   failures, lastOutput, delays, attempt>>

\* mutant: the wait's promise is never resolved
backoffNeverResolves ==
    /\ pc = "backoff"
    /\ FALSE
    /\ UNCHANGED state

\* the backoff delay elapses: attempt += 1 and the loop calls fn() again
backoff ==
    /\ pc = "backoff"
    /\ attempt' = attempt + 1
    /\ pc' = "runOnce"
    /\ UNCHANGED <<plan, other, persists, file, lastRegistered, inFlight, traceRefs,
                   retries, bridge, onTokenUsage, registry, trace, vars, cur,
                   registration, timer, thrown, replayed, replayOut, opCalls,
                   failures, lastOutput, delays>>

\* runOnce of a think step with no bridge throws before anything is called
runOnceNoBridge ==
    /\ pc = "runOnce"
    /\ step.kind = "think"
    /\ ~bridge
    /\ failures' = [failures EXCEPT ![cur] = @ + 1]
    /\ catch(NoBridgeMessage)
    /\ UNCHANGED <<vars, inFlight>>

\* mutant: every attempt looks the tool up again
runOnceLooksUp ==
    /\ pc = "runOnce"
    /\ step.kind = "think" => bridge
    /\ opCalls' = [opCalls EXCEPT ![cur] = @ + 1]
    /\ inFlight' = inFlight + 1
    /\ timer' = "pending"
    /\ registration' = IF step.kind = "tool" THEN registry[step.toolName] ELSE registration
    /\ traceRefs' = IF step.kind = "tool" THEN traceRefs \cup {"handler"} ELSE traceRefs
    /\ pc' = "inflight"
    /\ UNCHANGED <<plan, other, persists, file, lastRegistered, retries, bridge,
                   onTokenUsage, registry, trace, vars, cur, attempt, thrown,
                   replayed, replayOut, failures, lastOutput, delays>>

\* runOnce arms the timer and calls bridge.complete or registration.handler
runOnce ==
    /\ pc = "runOnce"
    /\ step.kind = "think" => bridge
    /\ opCalls' = [opCalls EXCEPT ![cur] = @ + 1]
    /\ inFlight' = inFlight + 1
    /\ timer' = "pending"
    \* a handler is passed ctx.trace; bridge.complete is passed no trace
    /\ traceRefs' = IF step.kind = "tool" THEN traceRefs \cup {"handler"} ELSE traceRefs
    /\ pc' = "inflight"
    /\ UNCHANGED <<plan, other, persists, file, lastRegistered, retries, bridge,
                   onTokenUsage, registry, trace, vars, cur, attempt, registration,
                   thrown, replayed, replayOut, failures, lastOutput, delays>>

\* mutant: the timer's expiry fails the attempt while its call is still pending
timeoutRaces ==
    /\ pc = "inflight"
    /\ timer = "pending"
    /\ failures' = [failures EXCEPT ![cur] = @ + 1]
    /\ catch(OperationMessage)
    /\ UNCHANGED <<vars, inFlight>>

\* maxStepMs elapses while the call is pending: the callback is controller.abort()
timeout ==
    /\ pc = "inflight"
    /\ timer = "pending"
    /\ timer' = "fired"
    /\ UNCHANGED <<plan, other, persists, file, lastRegistered, inFlight, traceRefs,
                   retries, bridge, onTokenUsage, registry, trace, vars, pc, cur,
                   attempt, registration, thrown, replayed, replayOut, opCalls,
                   failures, lastOutput, delays>>

\* mutant: the alias is not written
bindToolNoAlias(v, s, output) == [v EXCEPT ![s.id] = output]

\* vars after a tool step's handler resolved with output
bindTool(v, s, output) ==
    LET w == [v EXCEPT ![s.id] = output]
    IN  IF s.assign # NoAssign THEN [w EXCEPT ![s.assign] = output] ELSE w

\* bridge.complete resolves with text; onTokenUsage (if given) returns normally
thinkEnd(text) ==
    /\ pc = "inflight"
    /\ step.kind = "think"
    /\ vars' = [vars EXCEPT ![step.id] = text]
    /\ trace' = add(trace, EndEvent(step, text))
    /\ inFlight' = inFlight - 1
    /\ lastOutput' = text
    /\ timer' = "none"
    /\ cur' = cur + 1
    /\ pc' = "loop"
    /\ UNCHANGED <<plan, other, persists, file, lastRegistered, traceRefs, retries, bridge,
                   onTokenUsage, registry, attempt, registration, thrown, replayed,
                   replayOut, opCalls, failures, delays>>

\* bridge.complete resolves with text and usage; onTokenUsage throws: vars is
\* already written, think:end is not reached
thinkUsageThrows(text) ==
    /\ pc = "inflight"
    /\ step.kind = "think"
    /\ onTokenUsage
    /\ vars' = [vars EXCEPT ![step.id] = text]
    /\ failures' = [failures EXCEPT ![cur] = @ + 1]
    /\ inFlight' = inFlight - 1
    /\ catch(UsageMessage)

\* mutant: the handler's output is bound but no tool:end is recorded
toolEndUnrecorded(output) ==
    /\ pc = "inflight"
    /\ step.kind = "tool"
    /\ vars' = bindTool(vars, step, output)
    /\ inFlight' = inFlight - 1
    /\ lastOutput' = output
    /\ timer' = "none"
    /\ registration' = Absent
    /\ cur' = cur + 1
    /\ pc' = "loop"
    /\ UNCHANGED <<plan, other, file, persists, lastRegistered, traceRefs, retries, bridge,
                   onTokenUsage, registry, attempt, thrown, replayed, replayOut,
                   opCalls, failures, delays, trace>>

\* registration.handler resolves with output; the step's registration goes out
\* of scope with the loop iteration
toolEnd(output) ==
    /\ pc = "inflight"
    /\ step.kind = "tool"
    /\ vars' = bindTool(vars, step, output)
    /\ trace' = add(trace, EndEvent(step, output))
    /\ inFlight' = inFlight - 1
    /\ lastOutput' = output
    /\ timer' = "none"
    /\ registration' = Absent
    /\ cur' = cur + 1
    /\ pc' = "loop"
    /\ UNCHANGED <<plan, other, persists, file, lastRegistered, traceRefs, retries, bridge,
                   onTokenUsage, registry, attempt, thrown, replayed, replayOut,
                   opCalls, failures, delays>>

\* bridge.complete or the handler rejects
operationRejects ==
    /\ pc = "inflight"
    /\ failures' = [failures EXCEPT ![cur] = @ + 1]
    /\ catch(OperationMessage)
    /\ inFlight' = inFlight - 1
    /\ UNCHANGED vars

\* --------------------------------------------------------------- replayPlan
\* mutant: the first event of the step is taken, whatever its type
findAnyType(events, type, id) ==
    LET hits == {i \in 1..Len(events) : events[i].stepId = id}
    IN  IF hits = {} THEN 0 ELSE CHOOSE i \in hits : \A j \in hits : i <= j

\* prior.events.find(e => e.type === type && e.stepId === id): index, 0 if none
find(events, type, id) ==
    LET hits == {i \in 1..Len(events) : events[i].type = type /\ events[i].stepId = id}
    IN  IF hits = {} THEN 0 ELSE CHOOSE i \in hits : \A j \in hits : i <= j

RECURSIVE replayFrom(_, _, _, _)
replayFrom(p, events, k, v) ==
    IF k > Len(p) THEN [ok |-> TRUE, vars |-> v, missing |-> "none"]
    ELSE LET s == p[k]
             i == find(events, IF s.kind = "think" THEN "think:end" ELSE "tool:end", s.id)
         IN  IF i = 0
                THEN [ok |-> FALSE, vars |-> [x \in Keys |-> Unbound], missing |-> s.id]
                ELSE LET w == [v EXCEPT ![s.id] = events[i].output]
                     IN  replayFrom(p, events, k + 1,
                            IF s.kind = "tool" /\ s.assign # NoAssign
                               THEN [w EXCEPT ![s.assign] = events[i].output]
                               ELSE w)

\* mutant: replay injects the outputs at the step ids only, not at the aliases
RECURSIVE replayFromNoAlias(_, _, _, _)
replayFromNoAlias(p, events, k, v) ==
    IF k > Len(p) THEN [ok |-> TRUE, vars |-> v, missing |-> "none"]
    ELSE LET s == p[k]
             i == find(events, IF s.kind = "think" THEN "think:end" ELSE "tool:end", s.id)
         IN  IF i = 0
                THEN [ok |-> FALSE, vars |-> [x \in Keys |-> Unbound], missing |-> s.id]
                ELSE replayFromNoAlias(p, events, k + 1,
                                       [v EXCEPT ![s.id] = events[i].output])

replayPlanNoAlias(p, prior) == replayFromNoAlias(p, prior, 1, [x \in Keys |-> Unbound])

replayPlan(p, prior) == replayFrom(p, prior, 1, [x \in Keys |-> Unbound])

\* mutant: replay records its own events in the trace it was given
replayRecords ==
    /\ Settled
    /\ replayed < MaxReplay
    /\ replayOut' = replayPlan(plan, trace)
    /\ replayed' = replayed + 1
    /\ trace' = add(trace, PlanStartEvent)
    /\ UNCHANGED <<plan, other, persists, file, lastRegistered, inFlight, traceRefs,
                   retries, bridge, onTokenUsage, registry, vars, pc, cur, attempt,
                   registration, timer, thrown, opCalls, failures, lastOutput, delays>>

\* replayPlan(plan, trace.toJSON()) is called on the settled run's trace
replay ==
    /\ Settled
    /\ replayed < MaxReplay
    /\ replayOut' = replayPlan(plan, trace)
    /\ replayed' = replayed + 1
    /\ UNCHANGED <<plan, other, persists, file, lastRegistered, inFlight, traceRefs,
                   retries, bridge, onTokenUsage, registry, trace, vars, pc, cur,
                   attempt, registration, timer, thrown, opCalls, failures,
                   lastOutput, delays>>

Next ==
    \/ \E name \in ToolNames, reg \in Registrations : registerTool(name, reg)
    \/ runPlan
    \/ thinkStart
    \/ toolStart
    \/ toolNotRegistered
    \/ planEnd
    \/ backoff
    \/ runOnceNoBridge
    \/ runOnce
    \/ timeout
    \/ \E text \in Values : thinkEnd(text)
    \/ \E text \in Values : thinkUsageThrows(text)
    \/ \E output \in Values : toolEnd(output)
    \/ operationRejects
    \/ replay

Spec == Init /\ [][Next]_state

\* ------------------------------------------------------- trace observations
EventsOf(type) == {i \in 1..Len(trace) : trace[i].type = type}
ErrorsOf(id) == {i \in EventsOf("error") : trace[i].stepId = id}
BoundKeys == {x \in Keys : vars[x] # Unbound}
Declares(k) == plan[k].kind = "tool" /\ plan[k].assign # NoAssign
\* the keys step k writes when it completes
Writes(k) == {plan[k].id} \cup (IF Declares(k) THEN {plan[k].assign} ELSE {})
\* the run is at a tool step whose lookup found nothing
LookupFailed ==
    /\ pc \notin {"idle", "loop"}
    /\ cur <= Len(plan)
    /\ step.kind = "tool"
    /\ registration = Absent

\* ----------------------------------------------------------------- C1
\* C1: after a run that resolved, replayPlan(plan, trace.toJSON()) succeeds and
\* returns bindings equal to the run's vars, key for key and value for value.
ReplayDeterminism ==
    (pc = "resolved" /\ replayed > 0) => (replayOut.ok /\ replayOut.vars = vars)

ReplayDeterminismWitness ==
    /\ pc = "resolved"
    /\ replayed > 0
    /\ Len(plan) = 2
    /\ plan[1].kind = "think"
    /\ Declares(2)
    /\ vars[plan[2].assign] # Unbound
    /\ failures[1] > 0

\* ----------------------------------------------------------------- C2
\* C2: a replayPlan call changes neither the trace nor the registry, calls no
\* bridge and no handler, leaves the run's vars alone, and a second call on
\* the same plan and trace returns what the first returned.
ReplayPurity ==
    [][replayed' # replayed =>
          /\ trace' = trace
          /\ registry' = registry
          /\ opCalls' = opCalls
          /\ vars' = vars
          /\ (replayed >= 1 => replayOut' = replayOut)]_state

ReplayPurityWitness ==
    /\ replayed = 2
    /\ replayOut.ok
    /\ \E k \in 1..Len(plan) : Declares(k) /\ replayOut.vars[plan[k].assign] # Unbound

\* ----------------------------------------------------------------- C3
\* C3: a step is given up exactly when its operation has failed retries + 1
\* times: with at most `retries` failures the run is not rejected at that step
\* and the next invocation's result is bound at the step id when it succeeds;
\* with retries + 1 failures the whole plan is rejected.
RetryBoundary ==
    /\ \A k \in 1..Len(plan) : failures[k] > retries => (pc = "rejected" /\ cur = k)
    /\ (pc = "rejected" /\ thrown # NotRegisteredMessage) => failures[cur] = retries + 1
    /\ (pc \in {"loop", "resolved"} /\ cur > 1) =>
          /\ failures[cur - 1] <= retries
          /\ opCalls[cur - 1] = failures[cur - 1] + 1 \/ plan[cur - 1].kind = "think"
          /\ vars[plan[cur - 1].id] = lastOutput

RetryBoundaryWitness ==
    /\ pc = "resolved"
    /\ retries = 1
    /\ \E k \in 1..Len(plan) :
          /\ plan[k].kind = "tool"
          /\ failures[k] = 1
          /\ opCalls[k] = 2
          /\ vars[plan[k].id] # Unbound

\* ----------------------------------------------------------------- C4
\* C4 as stated: in the vars of every resolved run, for every tool step that
\* declares assign, vars[assign] = vars[id], whatever the plan.
AliasInvariantAnyPlan ==
    pc = "resolved" =>
        \A k \in 1..Len(plan) : Declares(k) => vars[plan[k].assign] = vars[plan[k].id]

\* no later step writes the id or the alias of step k
NotOverwritten(k) ==
    \A j \in (k + 1)..Len(plan) : Writes(j) \cap Writes(k) = {}

\* C4 amended: the alias equals the step-id binding when the step completes,
\* and still does in the vars of a resolved run for every step whose id and
\* alias no later step writes.
AliasInvariant ==
    /\ (pc \in {"loop", "resolved"} /\ cur > 1 /\ Declares(cur - 1)) =>
          /\ vars[plan[cur - 1].assign] = vars[plan[cur - 1].id]
          /\ vars[plan[cur - 1].assign] = lastOutput
    /\ pc = "resolved" =>
          \A k \in 1..Len(plan) :
              (Declares(k) /\ NotOverwritten(k)) =>
                  (vars[plan[k].assign] = vars[plan[k].id] /\ vars[plan[k].id] # Unbound)

AliasInvariantWitness ==
    /\ pc = "resolved"
    /\ Len(plan) = 2
    /\ Declares(1)
    /\ NotOverwritten(1)
    /\ plan[1].assign # plan[1].id
    /\ vars[plan[1].assign] # vars[plan[2].id]

\* ----------------------------------------------------------------- C5
\* C5: once runPlan has settled its trace holds plan:end iff the run resolved;
\* a rejected run's trace holds none; and plan:end, when present, is the last
\* event at every moment.
PlanEndIffResolved ==
    /\ Settled => (EventsOf("plan:end") # {} <=> pc = "resolved")
    /\ ~Settled => EventsOf("plan:end") = {}
    /\ \A i \in EventsOf("plan:end") : i = Len(trace) /\ trace[i].message = "ok"
    /\ Cardinality(EventsOf("plan:end")) <= 1

PlanEndIffResolvedWitness ==
    /\ pc = "rejected"
    /\ cur = 2
    /\ EventsOf("think:end") \cup EventsOf("tool:end") # {}
    /\ replayed > 0

\* ----------------------------------------------------------------- C6
\* C6: the trace holds an error event iff some attempt of some step has failed,
\* recovered by a later retry or not.
ErrorIffFailed ==
    (EventsOf("error") # {}) <=> (\E k \in 1..MaxSteps : failures[k] > 0)

ErrorIffFailedWitness ==
    /\ pc = "resolved"
    /\ EventsOf("error") # {}
    /\ \E k \in 1..Len(plan) : failures[k] = 1

\* ----------------------------------------------------------------- C7
\* C7 as stated: when the run reaches a tool step whose tool is not registered
\* it rejects without invoking a handler for the step, and vars holds no entry
\* at that step's id, nor at the id or alias of any later step.
FailFastUnregisteredAnyPlan ==
    LookupFailed =>
        /\ pc = "rejected"
        /\ opCalls[cur] = 0
        /\ vars[step.id] = Unbound
        /\ \A j \in (cur + 1)..Len(plan) : Writes(j) \cap BoundKeys = {}

\* C7 amended: ... and vars holds only what the earlier steps wrote: every bound
\* key is the id or the alias of a step before the failing one.
FailFastUnregistered ==
    LookupFailed =>
        /\ pc = "rejected"
        /\ thrown = NotRegisteredMessage
        /\ \A j \in cur..Len(plan) : opCalls[j] = 0
        /\ \A x \in BoundKeys : \E j \in 1..(cur - 1) : x \in Writes(j)

FailFastUnregisteredWitness ==
    /\ LookupFailed
    /\ cur = 2
    /\ BoundKeys # {}
    /\ step.id \notin BoundKeys

\* ----------------------------------------------------------------- C8
\* C8: once maxStepMs has elapsed on a pending bridge or handler call, the
\* attempt has been counted as failed (error appended, retry policy applied):
\* the runner is no longer waiting for that call.
TimeoutFailsAttempt ==
    timer = "fired" => (pc \in {"backoff", "rejected"} /\ ErrorsOf(step.id) # {})

\* ----------------------------------------------------------------- C9
\* C9: with no bridge, a think step fails the run at its first failure: one
\* error event, no backoff wait, no further attempt, whatever retries is.
NoBridgeNotRetried ==
    (cur <= Len(plan) /\ step.kind = "think" /\ ~bridge /\ failures[cur] > 0) =>
        /\ pc = "rejected"
        /\ failures[cur] = 1
        /\ Cardinality(ErrorsOf(step.id)) = 1
        /\ delays[cur] = <<>>

Untouched(j) ==
    /\ opCalls[j] = 0
    /\ failures[j] = 0
    /\ \A i \in 1..Len(trace) : trace[i].stepId # plan[j].id

\* C11: once a step has failed with no retry left, or its tool lookup has
\* failed, the run is rejected with that error at that step and no later step
\* has been or is ever started.
AbortRemainder ==
    \A k \in 1..Len(plan) :
        (failures[k] > retries \/ (k = cur /\ LookupFailed)) =>
            /\ pc = "rejected"
            /\ cur = k
            /\ thrown # ""
            /\ \A j \in (k + 1)..Len(plan) : Untouched(j)

AbortRemainderWitness ==
    /\ pc = "rejected"
    /\ replayed > 0
    /\ Len(plan) = 2
    /\ cur = 1
    /\ retries = 1
    /\ failures[1] = 2
    /\ Untouched(2)

\* ----------------------------------------------------------------- C12
\* C12: whenever the run is rejected, the last event of the trace is an error
\* event that carries the message and the stack of the error thrown (every
\* error the run throws is an Error object, which has a stack).
ErrorRecordedWithStack ==
    pc = "rejected" =>
        /\ trace # <<>>
        /\ trace[Len(trace)].type = "error"
        /\ trace[Len(trace)].message = thrown
        /\ trace[Len(trace)].stack

\* ----------------------------------------------------------------- C13
\* C13: when runPlan has rejected, its caller holds the Trace object of the run
\* and can read the events appended up to the failure.
PartialTraceToCaller ==
    pc = "rejected" => (trace # <<>> /\ "caller" \in traceRefs)

\* ----------------------------------------------------------------- C14
\* step j has completed successfully: its end event is in the trace
Completed(j) ==
    \E i \in 1..Len(trace) :
        /\ trace[i].stepId = plan[j].id
        /\ trace[i].type = (IF plan[j].kind = "think" THEN "think:end" ELSE "tool:end")

\* C14: at most one bridge or handler call is in flight, and only while the
\* runner awaits it; every call of a step made before the one in flight has
\* settled (failed, or completed the step); and a step has events or calls
\* only when every step before it has completed successfully.
StrictlySequential ==
    /\ inFlight \in {0, 1}
    /\ inFlight = 1 <=> pc = "inflight"
    /\ \A k \in 1..Len(plan) :
          /\ opCalls[k] > 0 =>
                opCalls[k] = failures[k] + (IF k < cur THEN 1 ELSE inFlight)
          /\ ~Untouched(k) => (k <= cur /\ \A j \in 1..(k - 1) : Completed(j))
          /\ k < cur <=> Completed(k)

StrictlySequentialWitness ==
    /\ pc = "inflight"
    /\ inFlight = 1
    /\ cur = 2
    /\ Completed(1)
    /\ opCalls[2] = 2
    /\ failures[2] = 1

\* ----------------------------------------------------------------- C15
\* a tool handler is passed the run's own vars object in its context and,
\* while its call is pending, sets a key of it (value # Unbound) or deletes
\* one (value = Unbound)
handlerWritesVars(key, value) ==
    /\ pc = "inflight"
    /\ step.kind = "tool"
    /\ vars[key] # value
    /\ vars' = [vars EXCEPT ![key] = value]
    /\ UNCHANGED <<plan, other, persists, file, lastRegistered, inFlight, traceRefs,
                   retries, bridge, onTokenUsage, registry, trace, pc, cur, attempt,
                   registration, timer, thrown, replayed, replayOut, opCalls,
                   failures, lastOutput, delays>>

NextHandlers ==
    \/ Next
    \/ \E key \in Keys, value \in Values \cup {Unbound} : handlerWritesVars(key, value)

\* the runner with tool handlers that use the vars of their context
SpecHandlers == Init /\ [][NextHandlers]_state

\* C15: vars changes only by the runner's write that completes a step (the
\* step id, and the alias of a tool step, set to the operation's result, with
\* the end event appended and no failure counted), and no bound key ever
\* becomes unbound.
BindingsSingleWriter ==
    [][vars' # vars =>
          /\ \A x \in Keys : vars[x] # Unbound => vars'[x] # Unbound
          /\ failures' = failures
          /\ trace' = add(trace, EndEvent(step, lastOutput'))
          /\ vars' = (IF step.kind = "tool"
                         THEN bindTool(vars, step, lastOutput')
                         ELSE [vars EXCEPT ![step.id] = lastOutput'])]_state

\* ----------------------------------------------------------------- C16
\* C16: at every moment the registry holds, for every name, the registration
\* passed to the most recent registerTool call with that name (an overwrite
\* replaces the earlier one), and a name once registered stays registered.
LastWriteWins ==
    /\ \A n \in ToolNames : registry[n] = lastRegistered[n]
    /\ registry["add_one"] # Absent

LastWriteWinsWitness ==
    /\ registry["add_one"] \in Registrations
    /\ registry["not_there"] \in Registrations
    /\ registration = registry["add_one"]
    /\ pc = "inflight"

\* ----------------------------------------------------------------- C17
\* C17: every step of the run that changes the trace appends exactly one event
\* at its end: the events already in the log stay, in their order, so each
\* earlier snapshot is a prefix of each later one.
AppendOnly ==
    [][trace' # trace =>
          /\ Len(trace') = Len(trace) + 1
          /\ SubSeq(trace', 1, Len(trace)) = trace]_state

AppendOnlyWitness ==
    /\ pc = "resolved"
    /\ Len(trace) >= 7
    /\ trace[1] = PlanStartEvent
    /\ trace[Len(trace)] = PlanEndEvent
    /\ EventsOf("error") # {}

\* ----------------------------------------------------------------- C18
\* The trace recorder on its own: a Trace from createTrace() that its holder
\* adds events to and persists to one path.  persist is async: it awaits
\* fs.mkdir, then builds JSON.stringify(this.toJSON()) and awaits fs.writeFile;
\* add is synchronous and can run while a persist call is suspended, and a
\* holder that does not await persist can have several calls pending.
\* JSON.stringify keeps every field of the events modelled (strings, numbers,
\* booleans), so the text is represented by the document it encodes.
runnerVars == <<plan, retries, bridge, onTokenUsage, registry, lastRegistered, vars, pc,
                cur, attempt, registration, timer, thrown, replayed, replayOut, opCalls,
                failures, lastOutput, delays, inFlight, traceRefs, other>>

CallerEvents == {PlanStartEvent, ErrorEvent(StepIdAt[1], OperationMessage)}

InitTrace == Init /\ plan = <<>> /\ retries = 0

\* trace.add(e)
traceAdd(e) ==
    /\ Len(trace) < MaxEvents
    /\ trace' = add(trace, e)
    /\ UNCHANGED <<file, persists, runnerVars>>

\* trace.persist(p) is called: fs.mkdir is started and awaited
persist ==
    /\ Len(persists) < MaxPersist
    /\ persists' = Append(persists, [at |-> "mkdir", text |-> NoFile])
    /\ UNCHANGED <<trace, file, runnerVars>>

\* call i resumes after mkdir: the snapshot is serialized, fs.writeFile started
mkdirDone(i) ==
    /\ persists[i].at = "mkdir"
    /\ persists' = [persists EXCEPT ![i] = [at |-> "writeFile", text |-> toJSON(trace)]]
    /\ UNCHANGED <<trace, file, runnerVars>>

\* mutant: the text is appended to what the file holds
writeFileAppends(i) ==
    /\ persists[i].at = "writeFile"
    /\ file' = toJSON(file.events \o persists[i].text.events)
    /\ persists' = [persists EXCEPT ![i].at = "done"]
    /\ UNCHANGED <<trace, runnerVars>>

\* call i's fs.writeFile completes: the file's whole content is the text
writeFileDone(i) ==
    /\ persists[i].at = "writeFile"
    /\ file' = persists[i].text
    /\ persists' = [persists EXCEPT ![i].at = "done"]
    /\ UNCHANGED <<trace, runnerVars>>

NextTrace ==
    \/ \E e \in CallerEvents : traceAdd(e)
    \/ persist
    \/ \E i \in 1..Len(persists) : mkdirDone(i)
    \/ \E i \in 1..Len(persists) : writeFileDone(i)

SpecTrace == InitTrace /\ [][NextTrace]_state

\* persist call i completes in this step
Completes(i) == persists[i].at = "writeFile" /\ persists'[i].at = "done"

\* C18 as stated: when a persist call completes, the file holds version 1 and
\* all events appended so far.
PersistHoldsAllEvents ==
    [][\A i \in 1..Len(persists) : Completes(i) => file' = toJSON(trace')]_state

\* C18 amended: when a persist call completes, the file's whole content is the
\* document {version: 1, events} of the events that were in the log when that
\* call serialized it (after its mkdir), in order: events added while the
\* write was pending are not in it; and the file changes at no other moment,
\* so it equals the snapshot taken by the persist call that completed last.
PersistSnapshot ==
    [][/\ \A i \in 1..Len(persists) :
             Completes(i) =>
                 \E n \in 0..Len(trace') :
                     /\ n = Len(persists[i].text.events)
                     /\ file' = [version |-> 1, events |-> SubSeq(trace', 1, n)]
       /\ file' # file => \E i \in 1..Len(persists) : Completes(i)]_state

PersistSnapshotWitness ==
    /\ Len(persists) = 2
    /\ \A i \in 1..2 : persists[i].at = "done"
    /\ Len(persists[1].text.events) = 1
    /\ Len(persists[2].text.events) = 2
    /\ file = persists[2].text
    /\ Len(trace) = 3

\* ----------------------------------------------------------------- C19
\* the steps of the plan with no end event of their kind in the trace
Incomplete == {k \in 1..Len(plan) : ~Completed(k)}

\* C19: replayPlan on the settled run's trace fails iff some step of the plan
\* has no end event of its kind and id in the trace; the failure names the
\* first such step in plan order and returns no bindings; a success names none.
ReplayFailsIffIncomplete ==
    replayed > 0 =>
        /\ replayOut.ok <=> Incomplete = {}
        /\ replayOut.ok => replayOut.missing = "none"
        /\ ~replayOut.ok =>
              /\ \E k \in Incomplete :
                    /\ \A j \in Incomplete : k <= j
                    /\ replayOut.missing = plan[k].id
              /\ \A x \in Keys : replayOut.vars[x] = Unbound

ReplayFailsIffIncompleteWitness ==
    /\ replayed > 0
    /\ pc = "rejected"
    /\ ~replayOut.ok
    /\ Len(plan) = 2
    /\ Incomplete = {2}
    /\ replayOut.missing = plan[2].id
    /\ ErrorsOf(plan[2].id) # {}

\* ----------------------------------------------------------------- C20
\* C20: a run with default options (no bridge, retries 0) of a think step
\* followed by a registered tool step with assign settles resolved, having
\* invoked the handler once and bound its output at the alias.
NoOptionsResolves ==
    (/\ Settled
     /\ ~bridge
     /\ retries = 0
     /\ Len(plan) = 2
     /\ plan[1].kind = "think"
     /\ Declares(2)) =>
        /\ pc = "resolved"
        /\ opCalls[2] = 1
        /\ vars[plan[2].assign] # Unbound
        /\ vars[plan[2].assign] = lastOutput

\* ----------------------------------------------------------------- C21
\* the end events of step k in the document persist would write now
EndsOf(k) ==
    {i \in 1..Len(toJSON(trace).events) :
        /\ toJSON(trace).events[i].stepId = plan[k].id
        /\ toJSON(trace).events[i].type \in {"think:end", "tool:end"}}

\* C21: in the snapshot of a resolved run every step has exactly one end event,
\* of the step's kind; and when a step completes, the output of its end event
\* is the value just bound at the step's id.
OneCompletionPerStep ==
    /\ pc = "resolved" =>
          \A k \in 1..Len(plan) :
              /\ Cardinality(EndsOf(k)) = 1
              /\ \A i \in EndsOf(k) :
                    trace[i].type = (IF plan[k].kind = "think" THEN "think:end"
                                                               ELSE "tool:end")
    /\ (pc \in {"loop", "resolved"} /\ cur > 1) =>
          \A i \in EndsOf(cur - 1) :
              /\ trace[i].output = vars[plan[cur - 1].id]
              /\ trace[i].output # Unbound

OneCompletionPerStepWitness ==
    /\ pc = "resolved"
    /\ Len(plan) = 2
    /\ plan[1].kind = "think"
    /\ plan[2].kind = "tool"
    /\ failures[1] = 1
    /\ failures[2] = 1
    /\ Cardinality(EndsOf(1)) = 1
    /\ Cardinality(EndsOf(2)) = 1

\* ----------------------------------------------------------------- C22
\* C22: no step's operation is invoked more than retries + 1 times; a run
\* rejected at a step whose operation was invoked has invoked it exactly
\* retries + 1 times, every invocation a failed attempt with its own error
\* event, and rejects with the message of the last of them; with retries = 0
\* that is one invocation and one error event.
AttemptCount ==
    /\ \A k \in 1..Len(plan) : opCalls[k] <= retries + 1
    /\ (pc = "rejected" /\ opCalls[cur] > 0) =>
          /\ opCalls[cur] = retries + 1
          /\ failures[cur] = retries + 1
          /\ Cardinality(ErrorsOf(step.id)) = retries + 1
          /\ trace[Len(trace)] = ErrorEvent(step.id, thrown)

AttemptCountWitness ==
    /\ pc = "rejected"
    /\ retries = 1
    /\ cur = 2
    /\ opCalls[2] = 2
    /\ Cardinality(ErrorsOf(plan[2].id)) = 2

\* ----------------------------------------------------------------- C23
\* The runner with retries up to MaxBackoffRetries, on the plans without
\* aliases (the waits depend neither on the bindings nor on later
\* registrations or replays).
SchedulePlans ==
    {p \in Plans : \A k \in 1..Len(p) : p[k].kind = "tool" => p[k].assign = NoAssign}

InitSchedule ==
    /\ plan \in SchedulePlans
    /\ retries \in 0..MaxBackoffRetries
    /\ Constructed

\* the steps of runPlan alone: no registerTool call during the run, no replay
NextSchedule ==
    \/ runPlan
    \/ thinkStart
    \/ toolStart
    \/ toolNotRegistered
    \/ planEnd
    \/ backoff
    \/ runOnceNoBridge
    \/ runOnce
    \/ timeout
    \/ \E text \in Values : thinkEnd(text)
    \/ \E text \in Values : thinkUsageThrows(text)
    \/ \E output \in Values : toolEnd(output)
    \/ operationRejects

SpecSchedule == InitSchedule /\ [][NextSchedule]_state

\* the same steps on every plan, with retries up to MaxRetries
SpecRun == Init /\ [][NextSchedule]_state

\* C23: the waits of a step are 1, 2, 4, ... seconds (2^k after failed attempt
\* k, counted from 0 within the step); a wait follows every failed attempt
\* but the one the run rejects with, and none follows a success or precedes
\* a step's first attempt.
BackoffSchedule ==
    \A k \in 1..Len(plan) :
        /\ \A i \in 1..Len(delays[k]) : delays[k][i] = 2 ^ (i - 1)
        /\ Len(delays[k]) =
              (IF pc = "rejected" /\ k = cur THEN failures[k] - 1 ELSE failures[k])
        /\ Len(delays[k]) <= retries

BackoffScheduleWitness ==
    /\ pc = "resolved"
    /\ Len(plan) = 2
    /\ delays[1] = <<1, 2, 4>>
    /\ delays[2] = <<1, 2>>

\* ----------------------------------------------------------------- C24
\* type and stepId of the events of the trace, in order
Tags == [i \in 1..Len(trace) |-> <<trace[i].type, trace[i].stepId>>]

RECURSIVE Repeat(_, _)
Repeat(x, n) == IF n = 0 THEN <<>> ELSE <<x>> \o Repeat(x, n - 1)

\* what the steps from k on emit in a run that resolves: per step its start
\* event, one error per failed attempt, its end event; then plan:end
RECURSIVE ShapeFrom(_)
ShapeFrom(k) ==
    IF k > Len(plan) THEN << <<"plan:end", "">> >>
    ELSE << <<StartEvent(plan[k]).type, plan[k].id>> >>
         \o Repeat(<<"error", plan[k].id>>, failures[k])
         \o << <<EndEvent(plan[k], Unbound).type, plan[k].id>> >>
         \o ShapeFrom(k + 1)

\* C24: the trace of a resolved run is plan:start, then for each step in plan
\* order its start event, one error event per failed attempt of it and its end
\* event, then plan:end, and nothing else.
TraceShape ==
    pc = "resolved" => Tags = << <<"plan:start", "">> >> \o ShapeFrom(1)

TraceShapeWitness ==
    /\ pc = "resolved"
    /\ Len(plan) = 2
    /\ plan[1].kind = "tool"
    /\ plan[2].kind = "think"
    /\ failures[1] = 1
    /\ failures[2] = 1
    /\ Len(trace) = 8

\* ----------------------------------------------------------------- C25
\* C25: every error event is preceded in the trace by a think:start or
\* tool:start event with the same stepId.
StartBeforeError ==
    \A i \in EventsOf("error") :
        \E j \in 1..(i - 1) :
            /\ trace[j].stepId = trace[i].stepId
            /\ trace[j].type \in {"think:start", "tool:start"}

\* ----------------------------------------------------------------- C26
\* C26: an attempt's timer (and with it the only way its signal is aborted)
\* exists exactly while the attempt's call is pending: it is armed or has fired
\* while the runner awaits the call, each call has its own, and no timer is
\* left once the attempt has settled, during a backoff wait, between steps or
\* after runPlan has settled.
CancellationScoped ==
    /\ pc = "inflight" <=> timer \in {"pending", "fired"}
    /\ pc # "inflight" => timer = "none"
    /\ timer # "none" => (inFlight = 1 /\ opCalls[cur] = failures[cur] + 1)

CancellationScopedWitness ==
    /\ pc = "rejected"
    /\ timer = "none"
    /\ step.kind = "tool"
    /\ retries = 1
    /\ opCalls[cur] = 2
    /\ failures[cur] = 2
    /\ cur = 2

\* ----------------------------------------------------------------- C27
\* the runner is inside retryWithBackoff for a tool step
InToolStep(p) == p \in {"runOnce", "inflight", "backoff"} /\ step.kind = "tool"

\* C27: when a tool step starts, the registration it will invoke is the one
\* the registry holds for its toolName at that moment; it stays the same
\* through all attempts and waits of the step, whatever registerTool does
\* meanwhile, and it is the one in place at each handler invocation.
RegistrationCaptured ==
    [][/\ (pc = "loop" /\ pc' = "runOnce" /\ step.kind = "tool") =>
              (registration' = registry[step.toolName] /\ registration' # Absent)
       /\ (InToolStep(pc) /\ InToolStep(pc')) => registration' = registration
       /\ (opCalls' # opCalls /\ step.kind = "tool") =>
              (registration' = registration /\ registration # Absent)]_state

RegistrationCapturedWitness ==
    /\ pc = "inflight"
    /\ step.kind = "tool"
    /\ opCalls[cur] = 2
    /\ registration = 1
    /\ registry[step.toolName] = 2

\* ----------------------------------------------------------------- C28
\* Two runPlan calls interleaved at their suspension points.  The second call
\* runs a one-step plan that uses the same step id, tool and alias as plans of
\* the first may; its handler invocations return values the first run's never
\* do, so that an output in the wrong run's trace or vars shows.  Each call has
\* its own trace and vars (locals of runPlan); both read the one registry.
OtherPlan == <<ToolStep(StepIdAt[1], "add_one", "answer")>>
OtherValues == {43}

firstRunVars == <<plan, retries, bridge, onTokenUsage, registry, lastRegistered,
                  trace, vars, pc, cur, attempt, registration, timer, thrown,
                  replayed, replayOut, opCalls, failures, lastOutput, delays,
                  inFlight, traceRefs, file, persists>>

\* the second call starts: createTrace(), vars = {}, plan:start
otherRunPlan ==
    /\ other.pc = "idle"
    /\ other' = [other EXCEPT !.pc = "loop", !.trace = add(@, PlanStartEvent)]
    /\ UNCHANGED firstRunVars

\* its tool step: registry.get finds the tool, tool:start, the handler is called
otherToolStart ==
    /\ other.pc = "loop"
    /\ registry[OtherPlan[1].toolName] # Absent
    /\ other' = [other EXCEPT !.pc = "inflight",
                              !.trace = add(@, StartEvent(OtherPlan[1]))]
    /\ UNCHANGED firstRunVars

\* mutant: vars is one module-level object that every run writes
otherToolEndShared(output) ==
    /\ other.pc = "inflight"
    /\ vars' = bindTool(vars, OtherPlan[1], output)
    /\ other' = [other EXCEPT !.pc = "done",
                              !.trace = add(@, EndEvent(OtherPlan[1], output))]
    /\ UNCHANGED <<plan, retries, bridge, onTokenUsage, registry, lastRegistered,
                   trace, pc, cur, attempt, registration, timer, thrown,
                   replayed, replayOut, opCalls, failures, lastOutput, delays,
                   inFlight, traceRefs, file, persists>>

\* its handler resolves: the output is bound in its vars, tool:end
otherToolEnd(output) ==
    /\ other.pc = "inflight"
    /\ other' = [other EXCEPT !.pc = "done",
                              !.vars = bindTool(@, OtherPlan[1], output),
                              !.trace = add(@, EndEvent(OtherPlan[1], output))]
    /\ UNCHANGED firstRunVars

\* its handler rejects (retries is 0): error event, the call rejects
otherOperationRejects ==
    /\ other.pc = "inflight"
    /\ other' = [other EXCEPT !.pc = "rejected",
                              !.trace = add(@, ErrorEvent(OtherPlan[1].id, OperationMessage))]
    /\ UNCHANGED firstRunVars

\* the loop is over: plan:end, the call resolves
otherPlanEnd ==
    /\ other.pc = "done"
    /\ other' = [other EXCEPT !.pc = "resolved", !.trace = add(@, PlanEndEvent)]
    /\ UNCHANGED firstRunVars

NextTwoRuns ==
    \/ NextSchedule
    \/ otherRunPlan
    \/ otherToolStart
    \/ \E output \in OtherValues : otherToolEnd(output)
    \/ otherOperationRejects
    \/ otherPlanEnd

\* the first call's plans: aliases that are step ids are left out
TwoRunPlans ==
    {p \in Plans : \A k \in 1..Len(p) : p[k].assign \in {NoAssign, "answer"}}

InitTwoRuns ==
    /\ plan \in TwoRunPlans
    /\ retries \in 0..MaxRetries
    /\ Constructed

SpecTwoRuns == InitTwoRuns /\ [][NextTwoRuns]_state

\* the events and bound values in trace t and bindings v come from the steps
\* of plan p and from operations returning values in outs
OwnOnly(t, v, p, outs) ==
    /\ \A i \in 1..Len(t) :
          /\ t[i].stepId \in {p[k].id : k \in 1..Len(p)} \cup {""}
          /\ t[i].output \in outs \cup {Unbound}
    /\ \A x \in Keys :
          /\ v[x] \in outs \cup {Unbound}
          /\ v[x] # Unbound =>
                \E k \in 1..Len(p) :
                    x = p[k].id \/ (p[k].kind = "tool" /\ x = p[k].assign)

\* C28: however the two calls interleave, each run's trace holds only events
\* of its own plan's steps with its own operations' outputs, each run's vars
\* binds only keys of its own plan to its own outputs, and a resolved run's
\* trace is exactly the shape of its own plan.
RunsIsolated ==
    /\ OwnOnly(trace, vars, plan, Values)
    /\ OwnOnly(other.trace, other.vars, OtherPlan, OtherValues)
    /\ TraceShape
    /\ Len(other.trace) <= 4

RunsIsolatedWitness ==
    /\ pc = "resolved"
    /\ other.pc = "resolved"
    /\ Len(plan) = 2
    /\ vars["answer"] \in Values
    /\ vars[StepIdAt[1]] \in Values
    /\ other.vars["answer"] \in OtherValues
    /\ failures[1] = 1

\* ----------------------------------------------------------------- C29
\* C29: whenever a step's id is bound in vars, the trace holds that step's end
\* event and the bound value is the output recorded in it.
BindingsAgreeWithTrace ==
    \A k \in 1..Len(plan) :
        vars[plan[k].id] # Unbound =>
            \E i \in EndsOf(k) : trace[i].output = vars[plan[k].id]

\* ----------------------------------------------------------------- C30
\* The run under the scheduling the claim assumes: the runner's own steps are
\* taken when they can be (the event loop runs the continuation of a settled
\* await, and a timer set for a backoff wait fires), and every pending
\* bridge.complete call or handler invocation eventually settles.
RunnerSteps ==
    \/ runPlan
    \/ thinkStart
    \/ toolStart
    \/ toolNotRegistered
    \/ planEnd
    \/ backoff
    \/ runOnceNoBridge
    \/ runOnce

Settles ==
    \/ \E text \in Values : thinkEnd(text)
    \/ \E text \in Values : thinkUsageThrows(text)
    \/ \E output \in Values : toolEnd(output)
    \/ operationRejects

SpecLive ==
    /\ Init
    /\ [][NextSchedule]_state
    /\ WF_state(RunnerSteps)
    /\ WF_state(Settles)

\* C30: every run settles: it resolves with plan:end as the last event of its
\* trace, or rejects; and by then no step's operation has been invoked more
\* than retries + 1 times.
Termination ==
    <>(/\ Settled
       /\ pc = "resolved" => trace[Len(trace)] = PlanEndEvent
       /\ \A k \in 1..Len(plan) : opCalls[k] <= retries + 1)

TerminationWitness ==
    /\ pc = "resolved"
    /\ Len(plan) = 2
    /\ retries = 1
    /\ opCalls[1] = 2
    /\ opCalls[2] = 2
    /\ timer = "none"
    /\ trace[Len(trace)] = PlanEndEvent

====
